---- MODULE Spec2Model ----
\* A model of the rollouts-demo color service (src/main.go): the signal-driven
\* shutdown coordinator, the CPU burn workers, the main goroutine, the HTTP
\* server as main.go drives it, and the request policy of getColor.
EXTENDS Integers, Sequences, FiniteSets, TLC

VARIABLES
    color,            \* os.Getenv("COLOR")                       (main.go:35)
    envErrorRate,     \* os.Getenv("ERROR_RATE"), as characters   (main.go:44)
    envLatency,       \* os.Getenv("LATENCY"), as characters      (main.go:45)
    terminationDelay, \* -termination-delay flag                  (main.go:98)
    numCPUBurn,       \* -cpu-burn flag, as characters            (main.go:99)
    quit,             \* chan os.Signal, capacity 1               (main.go:114)
    done,             \* chan bool: "open" or "closed"            (main.go:113)
    closes,           \* how many times close(done) has run       (main.go:134)
    coord,            \* position of the signal-handling goroutine (main.go:117-135)
    escalated,        \* the select took the second-signal branch (main.go:124)
    ticker,           \* delay ticker: "none", "running", "stopped" (main.go:121)
    delayC,           \* ticks buffered in delay.C (capacity 1)   (main.go:126)
    fired,            \* the ticker has ticked at least once
    keepAlives,       \* server keep-alives enabled               (main.go:119)
    listening,        \* the listener is open                     (main.go:139)
    inShutdown,       \* server.Shutdown has been called          (main.go:131)
    shutdownCalls,    \* number of server.Shutdown calls          (main.go:131)
    shutdownErr,      \* result of server.Shutdown: "none", "nil", "deadline"
    mainpc,           \* position of the main goroutine           (main.go:137-145)
    numCPU,           \* cpuBurn's numCPU                         (main.go:287)
    workers,          \* burn worker i -> "none", "running", "stopped"
    conns,            \* connection slot -> request handler state
    refused,          \* the last connection attempt that was not admitted:
                      \* "none", "starting" (before Shutdown), "stopping" (after)
    exit,             \* process: "running", "clean", "fatal", "panic"
    call              \* one getColor call observed in full (request policy)

vars == <<color, envErrorRate, envLatency, terminationDelay, numCPUBurn,
          quit, done, closes, coord, escalated, ticker, delayC, fired,
          keepAlives, listening, inShutdown, shutdownCalls, shutdownErr,
          mainpc, numCPU, workers, conns, refused, exit, call>>

cfgVars == <<color, envErrorRate, envLatency, terminationDelay, numCPUBurn>>
coordVars == <<quit, done, closes, coord, escalated, ticker, delayC, fired>>
serverVars == <<keepAlives, listening, inShutdown, shutdownCalls, shutdownErr>>
mainVars == <<mainpc, numCPU>>
lifeVars == <<coordVars, serverVars, mainVars, workers, conns, refused, exit>>

----------------------------------------------------------------------------
\* Bounds of the model.

MaxConns == 1        \* connections open at the same time
MaxCPU == 2          \* largest runtime.NumCPU() and -cpu-burn value
MaxRecs == 2         \* records in one request body
MaxRandInt == 6      \* largest value drawn from rand.Int()

\* Program constants.

defaultTerminationDelay == 10
QuitCap == 1
RandN == 100

colors == <<"red", "orange", "yellow", "green", "blue", "purple">>

Signals == {"SIGINT", "SIGTERM"}

----------------------------------------------------------------------------
\* Strings that the program converts are sequences of characters.

Digits == {"0", "1", "2", "3", "4", "5", "6", "7", "8", "9"}

DigitVal(c) ==
    CASE c = "0" -> 0 [] c = "1" -> 1 [] c = "2" -> 2 [] c = "3" -> 3
      [] c = "4" -> 4 [] c = "5" -> 5 [] c = "6" -> 6 [] c = "7" -> 7
      [] c = "8" -> 8 [] c = "9" -> 9

RECURSIVE DigitsVal(_, _)
DigitsVal(s, acc) ==
    IF s = <<>> THEN acc ELSE DigitsVal(Tail(s), acc * 10 + DigitVal(Head(s)))

\* strconv.Atoi: an optional sign, then one or more decimal digits.
Atoi(s) ==
    LET signed == s # <<>> /\ Head(s) \in {"+", "-"}
        body == IF signed THEN Tail(s) ELSE s
        ok == body # <<>> /\ \A k \in 1..Len(body) : body[k] \in Digits
    IN  IF ~ok THEN [ok |-> FALSE, val |-> 0]
        ELSE [ok |-> TRUE,
              val |-> IF signed /\ Head(s) = "-" THEN 0 - DigitsVal(body, 0)
                      ELSE DigitsVal(body, 0)]

----------------------------------------------------------------------------
\* Request bodies. A body is the bytes the client sent, by their JSON reading:
\* "readerr" (the read failed), "empty" (no bytes), "string" (a JSON string
\* literal; s = "[]" is the sentinel text "[]" in quotes), "null", "array",
\* "object" and "garbage" (not JSON; s is the first byte, which no JSON value
\* begins with).

JAbsent == [t |-> "absent", n |-> 0, s |-> ""]
JNull == [t |-> "null", n |-> 0, s |-> ""]
JInt(n) == [t |-> "int", n |-> n, s |-> ""]
JStr(s) == [t |-> "str", n |-> 0, s |-> s]

JObject(c, dp, dl, r5) ==
    [t |-> "object", color |-> c, delayPercent |-> dp, delayLength |-> dl,
     return500 |-> r5]
JNullElem == [JObject(JAbsent, JAbsent, JAbsent, JAbsent) EXCEPT !.t = "null"]

Body(kind, s, elems) == [kind |-> kind, s |-> s, elems |-> elems]
EmptyBody == Body("empty", "", <<>>)
SentinelBody == Body("string", "[]", <<>>)
GarbageBody == Body("garbage", "x", <<>>)
PercentBody == Body("garbage", "%", <<>>)
ArrayBody(elems) == Body("array", "", elems)

\* The records request bodies are built from.
RedFull == JObject(JStr("red"), JInt(100), JInt(2), JInt(100))
BlueHalf == JObject(JStr("blue"), JInt(50), JInt(3), JInt(50))
RedZero == JObject(JStr("red"), JInt(0), JInt(2), JNull)
RedBad == JObject(JStr("red"), JStr("high"), JAbsent, JAbsent)
Elems == {RedFull, BlueHalf, RedZero, RedBad}

RECURSIVE SeqsUpTo(_, _)
SeqsUpTo(S, n) ==
    IF n = 0 THEN {<<>>}
    ELSE LET shorter == SeqsUpTo(S, n - 1)
         IN  shorter \cup {Append(q, e) : q \in shorter, e \in S}

Bodies ==
    {Body("readerr", "", <<>>), EmptyBody, SentinelBody, Body("string", "x", <<>>),
     Body("null", "", <<>>), Body("object", "", <<>>), GarbageBody, PercentBody}
    \cup {ArrayBody(q) : q \in SeqsUpTo(Elems, MaxRecs)}

\* The bodies the lifecycle model's clients send.
LifeBodies == {EmptyBody, PercentBody, ArrayBody(<<RedFull>>)}

----------------------------------------------------------------------------
\* type colorParameters (main.go:147-153). A *int is [nil, v].

NilPtr == [nil |-> TRUE, v |-> 0]
Ptr(v) == [nil |-> FALSE, v |-> v]
ZeroParams ==
    [Color |-> "", DelayProbability |-> NilPtr, DelayLength |-> 0,
     Return500Probability |-> NilPtr]

\* encoding/json into the fields of colorParameters: a missing key or a null
\* leaves the zero value, a value of the wrong JSON type is an error.
StringFieldOk(v) == v.t \in {"absent", "null", "str"}
IntFieldOk(v) == v.t \in {"absent", "null", "int"}
DecodeString(v) == IF v.t = "str" THEN v.s ELSE ""
DecodeInt(v) == IF v.t = "int" THEN v.n ELSE 0
DecodePtr(v) == IF v.t = "int" THEN Ptr(v.n) ELSE NilPtr

ElemOk(e) ==
    \/ e.t = "null"
    \/ /\ e.t = "object"
       /\ StringFieldOk(e.color)
       /\ IntFieldOk(e.delayPercent)
       /\ IntFieldOk(e.delayLength)
       /\ IntFieldOk(e.return500)

DecodeElem(e) ==
    IF e.t # "object" THEN ZeroParams
    ELSE [Color |-> DecodeString(e.color),
          DelayProbability |-> DecodePtr(e.delayPercent),
          DelayLength |-> DecodeInt(e.delayLength),
          Return500Probability |-> DecodePtr(e.return500)]

\* Error values. The text of an error is a sequence of pieces: a piece is a
\* single character, or a run of characters that holds no '%'.
NoErr == <<>>
SyntaxErr(c) == <<"invalid character '", c, "'", " looking for beginning of value">>
TypeErr == <<"json: cannot unmarshal into Go value of type []main.colorParameters">>
ReadErr == <<"unexpected EOF">>
AtoiErr(s) == <<"strconv.Atoi: parsing ", "\"">> \o s \o <<"\"", ": invalid syntax">>

\* err.Error(): the text of the error.
RECURSIVE ErrorText(_)
ErrorText(e) == IF e = <<>> THEN "" ELSE Head(e) \o ErrorText(Tail(e))

\* fmt.Fprintf(w, format) with no operands, format given in pieces: "%%"
\* writes '%', '%' before any other character c writes "%!c(MISSING)", '%' at
\* the end writes "%!(NOVERB)", and everything else is copied.
RECURSIVE Fprintf(_)
Fprintf(format) ==
    IF format = <<>> THEN ""
    ELSE IF Head(format) # "%" THEN Head(format) \o Fprintf(Tail(format))
    ELSE IF Tail(format) = <<>> THEN "%!(NOVERB)"
    ELSE IF format[2] = "%" THEN "%" \o Fprintf(Tail(Tail(format)))
    ELSE "%!" \o format[2] \o "(MISSING)" \o Fprintf(Tail(Tail(format)))

\* json.Unmarshal(requestBody, &request) (main.go:198).
Unmarshal(body) ==
    CASE body.kind = "garbage" -> [err |-> SyntaxErr(body.s), request |-> <<>>]
      [] body.kind = "null" -> [err |-> NoErr, request |-> <<>>]
      [] body.kind = "array" ->
            IF \A k \in 1..Len(body.elems) : ElemOk(body.elems[k])
            THEN [err |-> NoErr,
                  request |-> [k \in 1..Len(body.elems) |-> DecodeElem(body.elems[k])]]
            ELSE [err |-> TypeErr, request |-> <<>>]
      [] OTHER -> [err |-> TypeErr, request |-> <<>>]

\* Mutant: the sentinel is not compared with; only an empty body is passed over.
NeedsUnmarshalNoSentinel(body) == body.kind # "empty"

\* len(requestBody) > 0 && string(requestBody) != `"[]"` (main.go:197).
NeedsUnmarshal(body) ==
    body.kind # "empty" /\ ~(body.kind = "string" /\ body.s = "[]")

\* main.go:188-205: read the body and decode it.
ParseRequest(body) ==
    IF body.kind = "readerr" THEN [err |-> ReadErr, request |-> <<>>]
    ELSE IF NeedsUnmarshal(body) THEN Unmarshal(body)
    ELSE [err |-> NoErr, request |-> <<>>]

\* randomColor (main.go:279-281), x the value of rand.Int().
randomColor(x) == colors[(x % Len(colors)) + 1]

\* Mutant: the color override is not applied.
ResolveColorIgnored(c, x) == randomColor(x)

\* main.go:207-210: the color override, if set, replaces the random color.
ResolveColor(c, x) == IF c # "" THEN c ELSE randomColor(x)

\* The rand.Int() draws the resolved color depends on (main.go:207-210).
ColorInts(c) == IF c # "" THEN {0} ELSE 0..MaxRandInt

\* main.go:212-218: the scan over the request's records, in order.
RECURSIVE ScanParams(_, _, _, _)
ScanParams(request, c, k, cp) ==
    IF k > Len(request) THEN cp
    ELSE ScanParams(request, c, k + 1,
                    IF request[k].Color = c THEN request[k] ELSE cp)

\* Mutant: the last record is taken whatever its color label.
ActiveParamsAnyColor(request, c) ==
    IF request = <<>> THEN ZeroParams ELSE request[Len(request)]

\* Mutant: the first record that matches is taken, not the last.
ActiveParamsFirst(request, c) ==
    LET matching == {k \in 1..Len(request) : request[k].Color = c}
    IN  IF matching = {} THEN ZeroParams
        ELSE request[CHOOSE k \in matching : \A j \in matching : k <= j]

\* var colorParams colorParameters and the scan that fills it (main.go:212-218).
ActiveParams(request, c) == ScanParams(request, c, 1, ZeroParams)

NoDraw == 0 - 1
Draws == 0..(RandN - 1)

\* The rand.Intn(100) draws the delay decision makes (main.go:220, 230): the
\* draw is evaluated only if the conditions before it hold.
DelayDraws(latency, cp) ==
    IF latency = <<>> /\ ~cp.DelayProbability.nil /\ cp.DelayProbability.v > 0
    THEN Draws ELSE {NoDraw}

\* Mutant: the per-request delay is looked at before the global latency.
DelayDecisionPerRequestFirst(latency, cp, r) ==
    IF ~cp.DelayProbability.nil /\ cp.DelayProbability.v > 0
    THEN [err |-> NoErr, sleep |-> cp.DelayLength, called |-> TRUE]
    ELSE IF latency # <<>>
    THEN IF Atoi(latency).ok
         THEN [err |-> NoErr, sleep |-> Atoi(latency).val, called |-> TRUE]
         ELSE [err |-> AtoiErr(latency), sleep |-> 0, called |-> FALSE]
    ELSE [err |-> NoErr, sleep |-> 0, called |-> FALSE]

\* main.go:220-233: sleep is the argument of time.Sleep, 0 if none is made.
DelayDecision(latency, cp, r) ==
    IF latency # <<>>
    THEN IF Atoi(latency).ok
         THEN [err |-> NoErr, sleep |-> Atoi(latency).val, called |-> TRUE]
         ELSE [err |-> AtoiErr(latency), sleep |-> 0, called |-> FALSE]
    ELSE IF /\ ~cp.DelayProbability.nil
            /\ cp.DelayProbability.v > 0
            /\ cp.DelayProbability.v >= r
         THEN [err |-> NoErr, sleep |-> cp.DelayLength, called |-> TRUE]
         ELSE [err |-> NoErr, sleep |-> 0, called |-> FALSE]

\* time.Sleep(d) returns at once for d <= 0 and after at least d otherwise.
Slept(d) == IF d > 0 THEN d ELSE 0

\* The rand.Intn(100) draws the failure decision makes (main.go:236-245).
FailureDraws(errorRate, cp) ==
    IF errorRate # <<>>
    THEN IF Atoi(errorRate).ok THEN Draws ELSE {NoDraw}
    ELSE IF ~cp.Return500Probability.nil /\ cp.Return500Probability.v > 0
         THEN Draws ELSE {NoDraw}

\* Mutant: the global rate succeeds on draw > rate instead of draw >= rate.
FailureDecisionStrict(errorRate, cp, r) ==
    IF errorRate # <<>>
    THEN IF Atoi(errorRate).ok
         THEN [err |-> NoErr, success |-> r > Atoi(errorRate).val]
         ELSE [err |-> AtoiErr(errorRate), success |-> FALSE]
    ELSE IF /\ ~cp.Return500Probability.nil
            /\ cp.Return500Probability.v > 0
            /\ cp.Return500Probability.v >= r
         THEN [err |-> NoErr, success |-> FALSE]
         ELSE [err |-> NoErr, success |-> TRUE]

\* Mutant: the per-request test fails the request on draw < probability.
FailureDecisionLess(errorRate, cp, r) ==
    IF errorRate # <<>>
    THEN IF Atoi(errorRate).ok
         THEN [err |-> NoErr, success |-> r >= Atoi(errorRate).val]
         ELSE [err |-> AtoiErr(errorRate), success |-> FALSE]
    ELSE IF /\ ~cp.Return500Probability.nil
            /\ cp.Return500Probability.v > 0
            /\ cp.Return500Probability.v > r
         THEN [err |-> NoErr, success |-> FALSE]
         ELSE [err |-> NoErr, success |-> TRUE]

\* main.go:235-247.
FailureDecision(errorRate, cp, r) ==
    IF errorRate # <<>>
    THEN IF Atoi(errorRate).ok
         THEN [err |-> NoErr, success |-> r >= Atoi(errorRate).val]
         ELSE [err |-> AtoiErr(errorRate), success |-> FALSE]
    ELSE IF /\ ~cp.Return500Probability.nil
            /\ cp.Return500Probability.v > 0
            /\ cp.Return500Probability.v >= r
         THEN [err |-> NoErr, success |-> FALSE]
         ELSE [err |-> NoErr, success |-> TRUE]

\* fmt.Fprintf(w, "\"%s\"", c) (main.go:268, 275).
Quote(c) == "\"" \o c \o "\""

\* printColor (main.go:251-277), x the rand.Int() of the display fallback.
printColor(colorToPrint, healthy, x) ==
    [status |-> IF healthy THEN 200 ELSE 500,
     body |-> IF colorToPrint = "" THEN Quote(randomColor(x))
              ELSE Quote(colorToPrint)]

\* The rand.Int() draws printColor makes (main.go:260-262).
FallbackInts(colorToPrint) == IF colorToPrint = "" THEN 0..MaxRandInt ELSE {0}

\* The error replies of getColor (main.go:190-193, 200-203, 223-226, 239-242):
\* w.WriteHeader(500); fmt.Fprintf(w, err.Error()), the text being the format.
ErrorReply(err) == [status |-> 500, body |-> Fprintf(err)]
NoReply == [status |-> 0, body |-> ""]

----------------------------------------------------------------------------
\* The process: configuration, and the state after main.go:113-117 (done and
\* quit made, the signals registered, the coordinator goroutine started).

All == <<"a", "l", "l">>
CPUBurnFlags == {<<>>, All, <<"1">>, <<"x">>}
TerminationDelays == {0, defaultTerminationDelay}

Running == exit = "running"

ConnSlots == 1..MaxConns
WorkerIds == 0..(MaxCPU - 1)
RandInts == 0..MaxRandInt

ClosedConn ==
    [pc |-> "closed", colorToReturn |-> "", r500 |-> NilPtr, slept |-> 0,
     reply |-> NoReply]
IdleConn == [ClosedConn EXCEPT !.pc = "idle"]

NoCall ==
    [pc |-> "idle", body |-> EmptyBody, colorToReturn |-> "",
     colorParams |-> ZeroParams, draw |-> NoDraw, slept |-> 0, reply |-> NoReply]

\* A connection the server still has to finish: Shutdown waits for these.
Active(c) == c.pc \in {"reading", "sleeping", "responded"}
\* A request whose response has not been written yet.
InFlight(c) == c.pc \in {"reading", "sleeping"}

LifeState(mpc, lst) ==
    /\ quit = <<>>
    /\ done = "open"
    /\ closes = 0
    /\ coord = "recv"
    /\ escalated = FALSE
    /\ ticker = "none"
    /\ delayC = 0
    /\ fired = FALSE
    /\ keepAlives = TRUE
    /\ listening = lst
    /\ inShutdown = FALSE
    /\ shutdownCalls = 0
    /\ shutdownErr = "none"
    /\ mainpc = mpc
    /\ numCPU = 0
    /\ workers = [i \in WorkerIds |-> "none"]
    /\ conns = [i \in ConnSlots |-> ClosedConn]
    /\ refused = "none"
    /\ exit = "running"
    /\ call = NoCall

Init ==
    /\ color = "red"
    /\ envErrorRate = <<>>
    /\ envLatency \in {<<>>, <<"3">>}
    /\ terminationDelay \in TerminationDelays
    /\ numCPUBurn \in CPUBurnFlags
    /\ LifeState("cpuBurn", FALSE)

----------------------------------------------------------------------------
\* The operating system raises a terminating signal: signal.Notify's sender
\* does a non-blocking send on quit and drops the signal if quit is full
\* (main.go:114-115).
Signal(s) ==
    /\ Running
    /\ quit' = IF Len(quit) < QuitCap THEN Append(quit, s) ELSE quit
    /\ UNCHANGED <<cfgVars, done, closes, coord,
                   escalated, ticker, delayC, fired, serverVars, mainVars, workers,
                   conns, refused, exit, call>>

\* The signal-handling goroutine (main.go:117-135).

\* sig := <-quit (main.go:118).
CoordRecv ==
    /\ Running
    /\ coord = "recv"
    /\ quit # <<>>
    /\ quit' = Tail(quit)
    /\ coord' = "keepalive"
    /\ UNCHANGED <<cfgVars, done, closes,
                   escalated, ticker, delayC, fired, serverVars, mainVars, workers,
                   conns, refused, exit, call>>

\* server.SetKeepAlivesEnabled(false) (main.go:119): idle connections are closed.
CoordDisableKeepAlives ==
    /\ Running
    /\ coord = "keepalive"
    /\ keepAlives' = FALSE
    /\ conns' = [i \in ConnSlots |->
                    IF conns[i].pc = "idle" THEN ClosedConn ELSE conns[i]]
    /\ coord' = "ticker"
    /\ UNCHANGED <<cfgVars, quit, done,
                   closes, escalated, ticker, delayC, fired, listening, inShutdown,
                   shutdownCalls, shutdownErr, mainVars, workers, refused, exit,
                   call>>

\* delay := time.NewTicker(terminationDelay * time.Second) (main.go:121):
\* NewTicker panics on a non-positive interval, which ends the process.
CoordNewTicker ==
    /\ Running
    /\ coord = "ticker"
    /\ IF terminationDelay > 0
       THEN /\ ticker' = "running"
            /\ coord' = "select"
            /\ exit' = exit
       ELSE /\ exit' = "panic"
            /\ coord' = "panicked"
            /\ ticker' = ticker
    /\ UNCHANGED <<cfgVars, quit, done,
                   closes, escalated, delayC, fired, serverVars, mainVars, workers,
                   conns, refused, call>>

\* The ticker sends on delay.C every terminationDelay seconds; a tick is
\* dropped while one is still buffered.
TickerFire ==
    /\ Running
    /\ ticker = "running"
    /\ delayC = 0
    /\ delayC' = 1
    /\ fired' = TRUE
    /\ UNCHANGED <<cfgVars, quit, done,
                   closes, coord, escalated, ticker, serverVars, mainVars,
                   workers, conns, refused, exit, call>>

\* Mutant: the second signal is taken only once a tick is buffered as well.
CoordSelectQuitAfterTick ==
    /\ Running
    /\ coord = "select"
    /\ quit # <<>>
    /\ delayC > 0
    /\ quit' = Tail(quit)
    /\ escalated' = TRUE
    /\ coord' = "shutdown"
    /\ UNCHANGED <<cfgVars, done, closes, ticker, delayC, fired, serverVars,
                   mainVars, workers, conns, refused, exit, call>>

\* select { case <-quit: ... } (main.go:123-125).
CoordSelectQuit ==
    /\ Running
    /\ coord = "select"
    /\ quit # <<>>
    /\ quit' = Tail(quit)
    /\ escalated' = TRUE
    /\ coord' = "shutdown"
    /\ UNCHANGED <<cfgVars, done, closes,
                   ticker, delayC, fired, serverVars, mainVars, workers, conns, refused,
                   exit, call>>

\* Mutant: the select does not wait for a tick (a default branch).
CoordSelectNoWait ==
    /\ Running
    /\ coord = "select"
    /\ coord' = "shutdown"
    /\ UNCHANGED <<cfgVars, quit, done, closes, escalated, ticker, delayC, fired,
                   serverVars, mainVars, workers, conns, refused, exit, call>>

\* select { case <-delay.C: } (main.go:123, 126).
CoordSelectTimer ==
    /\ Running
    /\ coord = "select"
    /\ delayC > 0
    /\ delayC' = delayC - 1
    /\ coord' = "shutdown"
    /\ UNCHANGED <<cfgVars, quit, done, closes, escalated, ticker, fired,
                   serverVars, mainVars, workers, conns, refused, exit, call>>

\* Mutant: server.Shutdown leaves the listener open.
CoordShutdownKeepListening ==
    /\ Running
    /\ coord = "shutdown"
    /\ inShutdown' = TRUE
    /\ shutdownCalls' = shutdownCalls + 1
    /\ conns' = [i \in ConnSlots |->
                    IF conns[i].pc = "idle" THEN ClosedConn ELSE conns[i]]
    /\ coord' = "shutdownWait"
    /\ UNCHANGED <<cfgVars, quit, done, closes, escalated, ticker, delayC, fired,
                   keepAlives, listening, shutdownErr, mainVars, workers, refused,
                   exit, call>>

\* server.Shutdown(ctx) is called (main.go:129-131): the listener is closed,
\* idle connections are closed, and the call waits for the active ones.
CoordShutdown ==
    /\ Running
    /\ coord = "shutdown"
    /\ inShutdown' = TRUE
    /\ listening' = FALSE
    /\ shutdownCalls' = shutdownCalls + 1
    /\ conns' = [i \in ConnSlots |->
                    IF conns[i].pc = "idle" THEN ClosedConn ELSE conns[i]]
    /\ coord' = "shutdownWait"
    /\ UNCHANGED <<cfgVars, quit, done,
                   closes, escalated, ticker, delayC, fired, keepAlives, shutdownErr,
                   mainVars, workers, refused, exit, call>>

\* Mutant: server.Shutdown takes a handler that is asleep for an idle
\* connection and does not wait for it.
CoordShutdownIgnoresSleeping ==
    /\ Running
    /\ coord = "shutdownWait"
    /\ \A i \in ConnSlots : conns[i].pc \notin {"reading", "responded"}
    /\ shutdownErr' = "nil"
    /\ coord' = "returned"
    /\ UNCHANGED <<cfgVars, quit, done, closes, escalated, ticker, delayC, fired,
                   keepAlives, listening, inShutdown, shutdownCalls, mainVars,
                   workers, conns, refused, exit, call>>

\* Mutant: server.Shutdown returns nil without waiting for the active
\* connections.
CoordShutdownNoWait ==
    /\ Running
    /\ coord = "shutdownWait"
    /\ shutdownErr' = "nil"
    /\ coord' = "returned"
    /\ UNCHANGED <<cfgVars, quit, done, closes, escalated, ticker, delayC, fired,
                   keepAlives, listening, inShutdown, shutdownCalls, mainVars,
                   workers, conns, refused, exit, call>>

\* server.Shutdown returns nil once no connection is active (main.go:131).
CoordShutdownOk ==
    /\ Running
    /\ coord = "shutdownWait"
    /\ \A i \in ConnSlots : ~Active(conns[i])
    /\ shutdownErr' = "nil"
    /\ coord' = "returned"
    /\ UNCHANGED <<cfgVars, quit, done,
                   closes, escalated, ticker, delayC, fired, keepAlives, listening,
                   inShutdown, shutdownCalls, mainVars, workers, conns, refused,
                   exit, call>>

\* server.Shutdown returns the context's error: the 30 s deadline passed while
\* a connection was still active (main.go:129, 131).
CoordShutdownTimeout ==
    /\ Running
    /\ coord = "shutdownWait"
    /\ \E i \in ConnSlots : Active(conns[i])
    /\ shutdownErr' = "deadline"
    /\ coord' = "returned"
    /\ UNCHANGED <<cfgVars, quit, done,
                   closes, escalated, ticker, delayC, fired, keepAlives, listening,
                   inShutdown, shutdownCalls, mainVars, workers, conns, refused,
                   exit, call>>

\* Mutant: the error is logged without ending the process, and the goroutine
\* goes on to close(done).
CoordLogAndClose ==
    /\ Running
    /\ coord = "returned"
    /\ shutdownErr # "nil"
    /\ closes' = closes + 1
    /\ done' = "closed"
    /\ ticker' = "stopped"
    /\ coord' = "finished"
    /\ UNCHANGED <<cfgVars, quit, escalated, delayC, fired, serverVars, mainVars,
                   workers, conns, refused, exit, call>>

\* if err != nil { log.Fatalf(...) } (main.go:131-133): os.Exit(1).
CoordFatal ==
    /\ Running
    /\ coord = "returned"
    /\ shutdownErr # "nil"
    /\ exit' = "fatal"
    /\ coord' = "fatal"
    /\ UNCHANGED <<cfgVars, quit, done,
                   closes, escalated, ticker, delayC, fired, serverVars, mainVars,
                   workers, conns, refused, call>>

\* Mutant: done is closed whatever server.Shutdown returned.
CoordCloseUnchecked ==
    /\ Running
    /\ coord = "returned"
    /\ closes' = closes + 1
    /\ done' = "closed"
    /\ ticker' = "stopped"
    /\ coord' = "finished"
    /\ UNCHANGED <<cfgVars, quit, escalated, delayC, fired, serverVars, mainVars,
                   workers, conns, refused, exit, call>>

\* Mutant: the goroutine goes back to wait for the next signal after close(done).
CoordCloseLoop ==
    /\ Running
    /\ coord = "returned"
    /\ shutdownErr = "nil"
    /\ closes' = closes + 1
    /\ IF done = "closed"
       THEN /\ exit' = "panic"
            /\ coord' = "panicked"
            /\ UNCHANGED <<done, ticker>>
       ELSE /\ done' = "closed"
            /\ ticker' = "stopped"
            /\ coord' = "recv"
            /\ exit' = exit
    /\ UNCHANGED <<cfgVars, quit, escalated, delayC, fired, serverVars, mainVars,
                   workers, conns, refused, call>>

\* close(done), then the deferred cancel() and delay.Stop() (main.go:122, 130,
\* 134-135). Closing a closed channel panics.
CoordClose ==
    /\ Running
    /\ coord = "returned"
    /\ shutdownErr = "nil"
    /\ closes' = closes + 1
    /\ IF done = "closed"
       THEN /\ exit' = "panic"
            /\ coord' = "panicked"
            /\ UNCHANGED <<done, ticker>>
       ELSE /\ done' = "closed"
            /\ ticker' = "stopped"
            /\ coord' = "finished"
            /\ exit' = exit
    /\ UNCHANGED <<cfgVars, quit,
                   escalated, delayC, fired, serverVars, mainVars, workers, conns,
                   refused, call>>

CoordStep ==
    \/ CoordRecv
    \/ CoordDisableKeepAlives
    \/ CoordNewTicker
    \/ CoordSelectQuit
    \/ CoordSelectTimer
    \/ CoordShutdown
    \/ CoordShutdownOk
    \/ CoordShutdownTimeout
    \/ CoordFatal
    \/ CoordClose

----------------------------------------------------------------------------
\* The main goroutine (main.go:137-145).

\* cpuBurn up to its loop (main.go:283-298); runtime.NumCPU() is 1..MaxCPU.
MainCpuBurn ==
    /\ Running
    /\ mainpc = "cpuBurn"
    /\ IF numCPUBurn = <<>>
       THEN mainpc' = "listen" /\ UNCHANGED <<numCPU, exit>>
       ELSE IF numCPUBurn = All
       THEN /\ \E n \in 1..MaxCPU : numCPU' = n
            /\ mainpc' = "spawn"
            /\ exit' = exit
       ELSE IF Atoi(numCPUBurn).ok
       THEN /\ numCPU' = Atoi(numCPUBurn).val
            /\ mainpc' = "spawn"
            /\ exit' = exit
       ELSE /\ exit' = "fatal"
            /\ mainpc' = "fatal"
            /\ numCPU' = numCPU
    /\ UNCHANGED <<cfgVars, coordVars, serverVars, workers, conns, refused, call>>

\* The workers started so far: the loop variable i of main.go:299.
Spawned == Cardinality({i \in WorkerIds : workers[i] # "none"})

\* One iteration of cpuBurn's loop: go func(cpu int) {...}(i) (main.go:299-312).
MainSpawnWorker ==
    /\ Running
    /\ mainpc = "spawn"
    /\ Spawned < numCPU
    /\ workers' = [workers EXCEPT ![Spawned] = "running"]
    /\ UNCHANGED <<cfgVars, coordVars, serverVars, mainVars, conns, refused, exit,
                   call>>

\* The loop ends and cpuBurn returns (main.go:299, 313, 138).
MainSpawnDone ==
    /\ Running
    /\ mainpc = "spawn"
    /\ Spawned >= numCPU
    /\ mainpc' = "listen"
    /\ UNCHANGED <<cfgVars, coordVars, serverVars, numCPU, workers, conns, refused,
                   exit, call>>

\* server.ListenAndServe() is called (main.go:139): it returns ErrServerClosed
\* at once if Shutdown has been called, and listens otherwise.
MainListenAndServe ==
    /\ Running
    /\ mainpc = "listen"
    /\ IF inShutdown
       THEN mainpc' = "wait" /\ listening' = listening
       ELSE mainpc' = "serving" /\ listening' = TRUE
    /\ UNCHANGED <<cfgVars, coordVars, keepAlives, inShutdown, shutdownCalls,
                   shutdownErr, numCPU, workers, conns, refused, exit, call>>

\* ListenAndServe returns ErrServerClosed when Shutdown closes the listener
\* (main.go:139).
MainServeClosed ==
    /\ Running
    /\ mainpc = "serving"
    /\ inShutdown
    /\ mainpc' = "wait"
    /\ UNCHANGED <<cfgVars, coordVars, serverVars, numCPU, workers, conns, refused,
                   exit, call>>

\* ListenAndServe fails with another error (the address cannot be bound, the
\* listener breaks): log.Fatalf (main.go:139-141).
MainListenError ==
    /\ Running
    /\ mainpc \in {"listen", "serving"}
    /\ ~inShutdown
    /\ exit' = "fatal"
    /\ mainpc' = "fatal"
    /\ UNCHANGED <<cfgVars, coordVars, serverVars, numCPU, workers, conns, refused,
                   call>>

\* Mutant: main returns as soon as ListenAndServe has, without <-done.
MainDoneNoWait ==
    /\ Running
    /\ mainpc = "wait"
    /\ mainpc' = "exited"
    /\ exit' = "clean"
    /\ UNCHANGED <<cfgVars, coordVars, serverVars, numCPU, workers, conns, refused,
                   call>>

\* <-done; log.Println("Server stopped"); main returns (main.go:143-145).
MainDone ==
    /\ Running
    /\ mainpc = "wait"
    /\ done = "closed"
    /\ mainpc' = "exited"
    /\ exit' = "clean"
    /\ UNCHANGED <<cfgVars, coordVars, serverVars, numCPU, workers, conns, refused,
                   call>>

MainStep ==
    \/ MainCpuBurn
    \/ MainSpawnWorker
    \/ MainSpawnDone
    \/ MainListenAndServe
    \/ MainServeClosed
    \/ MainDone

----------------------------------------------------------------------------
\* A CPU burn worker (main.go:300-311).

\* Mutant: the worker returns after one iteration, whatever done is.
WorkerOneShot(i) ==
    /\ Running
    /\ workers[i] = "running"
    /\ workers' = [workers EXCEPT ![i] = "stopped"]
    /\ UNCHANGED <<cfgVars, coordVars, serverVars, mainVars, conns, refused, exit,
                   call>>

\* Mutant: the worker waits on done (a receive without the default branch).
WorkerBlocking(i) ==
    /\ Running
    /\ workers[i] = "running"
    /\ done = "closed"
    /\ workers' = [workers EXCEPT ![i] = "stopped"]
    /\ UNCHANGED <<cfgVars, coordVars, serverVars, mainVars, conns, refused, exit,
                   call>>

\* One iteration of the loop (main.go:302-310): the select returns from the
\* worker if done is closed, and otherwise takes the default branch, where
\* noop() changes nothing and the loop goes round.
WorkerStep(i) ==
    /\ Running
    /\ workers[i] = "running"
    /\ workers' = [workers EXCEPT ![i] = IF done = "closed" THEN "stopped"
                                         ELSE "running"]
    /\ UNCHANGED <<cfgVars, coordVars, serverVars, mainVars, conns, refused, exit,
                   call>>

----------------------------------------------------------------------------
\* Connections and request handlers (the server of main.go:108-111, 139, and
\* getColor on it).

\* A client connects and sends a request: the server admits it while it is
\* listening (main.go:139).
ConnAccept(i) ==
    /\ Running
    /\ conns[i].pc = "closed"
    /\ listening
    /\ conns' = [conns EXCEPT ![i].pc = "reading"]
    /\ UNCHANGED <<cfgVars, coordVars, serverVars, mainVars, workers, refused, exit,
                   call>>

\* A client connects while no listener is open: before ListenAndServe and
\* after Shutdown (main.go:131, 139).
ConnRefuse ==
    /\ Running
    /\ ~listening
    /\ refused' = IF inShutdown THEN "stopping" ELSE "starting"
    /\ UNCHANGED <<cfgVars, coordVars, serverVars, mainVars, workers, conns, exit,
                   call>>

\* A client sends the next request on a kept-alive connection.
ConnNextRequest(i) ==
    /\ Running
    /\ conns[i].pc = "idle"
    /\ conns' = [conns EXCEPT ![i].pc = "reading"]
    /\ UNCHANGED <<cfgVars, coordVars, serverVars, mainVars, workers, refused, exit,
                   call>>

\* A client closes its kept-alive connection.
ConnClientClose(i) ==
    /\ Running
    /\ conns[i].pc = "idle"
    /\ conns' = [conns EXCEPT ![i] = ClosedConn]
    /\ UNCHANGED <<cfgVars, coordVars, serverVars, mainVars, workers, refused, exit,
                   call>>

\* getColor from its start to the end of the delay decision (main.go:187-233):
\* an error reply is written at once, otherwise the handler is past its
\* time.Sleep, if any, with slept the time it was blocked.
HandlerServe(i) ==
    /\ Running
    /\ conns[i].pc = "reading"
    /\ \E body \in LifeBodies, x \in ColorInts(color) :
         LET parsed == ParseRequest(body)
             colorToReturn == ResolveColor(color, x)
             colorParams == ActiveParams(parsed.request, colorToReturn)
         IN  IF parsed.err # NoErr
             THEN conns' = [conns EXCEPT ![i].pc = "responded",
                                         ![i].reply = ErrorReply(parsed.err)]
             ELSE \E r \in DelayDraws(envLatency, colorParams) :
                    LET delay == DelayDecision(envLatency, colorParams, r)
                    IN  IF delay.err # NoErr
                        THEN conns' = [conns EXCEPT ![i].pc = "responded",
                                                    ![i].reply = ErrorReply(delay.err)]
                        ELSE conns' = [conns EXCEPT
                                 ![i].pc = "sleeping",
                                 ![i].colorToReturn = colorToReturn,
                                 ![i].r500 = colorParams.Return500Probability,
                                 ![i].slept = IF delay.called THEN Slept(delay.sleep)
                                              ELSE 0]
    /\ UNCHANGED <<cfgVars, coordVars, serverVars, mainVars, workers, refused, exit,
                   call>>

\* getColor from the failure decision to its return (main.go:235-249).
HandlerFinish(i) ==
    /\ Running
    /\ conns[i].pc = "sleeping"
    /\ LET colorParams == [ZeroParams EXCEPT !.Return500Probability = conns[i].r500]
       IN  \E r \in FailureDraws(envErrorRate, colorParams),
              x \in FallbackInts(conns[i].colorToReturn) :
             LET failure == FailureDecision(envErrorRate, colorParams, r)
             IN  conns' = [conns EXCEPT
                     ![i].pc = "responded",
                     ![i].reply = IF failure.err # NoErr THEN ErrorReply(failure.err)
                                  ELSE printColor(conns[i].colorToReturn,
                                                  failure.success, x)]
    /\ UNCHANGED <<cfgVars, coordVars, serverVars, mainVars, workers, refused, exit,
                   call>>

\* The server is done with the request: the connection is kept for the next
\* one if keep-alives are enabled and Shutdown has not been called, and is
\* closed otherwise (main.go:119, 131).
ConnRelease(i) ==
    /\ Running
    /\ conns[i].pc = "responded"
    /\ conns' = [conns EXCEPT ![i] = IF keepAlives /\ ~inShutdown THEN IdleConn
                                     ELSE ClosedConn]
    /\ UNCHANGED <<cfgVars, coordVars, serverVars, mainVars, workers, refused, exit,
                   call>>

HandlerStep(i) == HandlerServe(i) \/ HandlerFinish(i) \/ ConnRelease(i)

ClientStep(i) == ConnAccept(i) \/ ConnNextRequest(i) \/ ConnClientClose(i)

----------------------------------------------------------------------------
Next ==
    \/ \E s \in Signals : Signal(s)
    \/ CoordStep
    \/ TickerFire
    \/ MainStep
    \/ MainListenError
    \/ \E i \in WorkerIds : WorkerStep(i)
    \/ \E i \in ConnSlots : ClientStep(i)
    \/ ConnRefuse
    \/ \E i \in ConnSlots : HandlerStep(i)

Spec == Init /\ [][Next]_vars

\* The Go scheduler runs every runnable goroutine, time passes, and Shutdown
\* returns by its deadline; signals, clients and listener failures are free.
Fairness ==
    /\ WF_vars(CoordStep)
    /\ WF_vars(TickerFire)
    /\ WF_vars(MainStep)
    /\ \A i \in WorkerIds : WF_vars(WorkerStep(i))
    /\ \A i \in ConnSlots : WF_vars(HandlerStep(i))

FairSpec == Spec /\ Fairness

----------------------------------------------------------------------------
\* The request policy on its own: one call of getColor on a serving process,
\* for every environment, body and draw, with what it read and what it wrote.

EnvColors == {"", "blue"}
EnvErrorRates == {<<>>, <<"0">>, <<"1", "0", "0">>, <<"x">>}
EnvLatencies == {<<>>, <<"0">>, <<"3">>, <<"x">>}

InitColor ==
    /\ color \in EnvColors
    /\ envErrorRate \in EnvErrorRates
    /\ envLatency \in EnvLatencies
    /\ terminationDelay = defaultTerminationDelay
    /\ numCPUBurn = <<>>
    /\ LifeState("serving", TRUE)

\* getColor from its start to the end of the delay decision (main.go:187-233),
\* for a request body out of B.
GetColorFrom(B) ==
    /\ Running
    /\ listening
    /\ call.pc = "idle"
    /\ \E body \in B, x \in ColorInts(color) :
         LET parsed == ParseRequest(body)
             colorToReturn == ResolveColor(color, x)
             colorParams == ActiveParams(parsed.request, colorToReturn)
         IN  IF parsed.err # NoErr
             THEN call' = [call EXCEPT !.pc = "returned", !.body = body,
                                       !.reply = ErrorReply(parsed.err)]
             ELSE \E r \in DelayDraws(envLatency, colorParams) :
                    LET delay == DelayDecision(envLatency, colorParams, r)
                    IN  IF delay.err # NoErr
                        THEN call' = [call EXCEPT
                                 !.pc = "returned", !.body = body,
                                 !.colorToReturn = colorToReturn,
                                 !.colorParams = colorParams,
                                 !.reply = ErrorReply(delay.err)]
                        ELSE call' = [call EXCEPT
                                 !.pc = "sleeping", !.body = body,
                                 !.colorToReturn = colorToReturn,
                                 !.colorParams = colorParams,
                                 !.draw = r,
                                 !.slept = IF delay.called THEN Slept(delay.sleep)
                                           ELSE 0]
    /\ UNCHANGED <<cfgVars, lifeVars>>

GetColorEnter == GetColorFrom(Bodies)

\* getColor from the failure decision to its return (main.go:235-249).
GetColorReturn ==
    /\ Running
    /\ call.pc = "sleeping"
    /\ \E r \in FailureDraws(envErrorRate, call.colorParams),
          x \in FallbackInts(call.colorToReturn) :
         LET failure == FailureDecision(envErrorRate, call.colorParams, r)
         IN  call' = [call EXCEPT
                 !.pc = "returned",
                 !.draw = r,
                 !.reply = IF failure.err # NoErr THEN ErrorReply(failure.err)
                           ELSE printColor(call.colorToReturn, failure.success, x)]
    /\ UNCHANGED <<cfgVars, lifeVars>>

NextColor == GetColorEnter \/ GetColorReturn

ColorSpec == InitColor /\ [][NextColor]_vars

----------------------------------------------------------------------------
\* The two probability tests on their own: one call of getColor with no
\* environment override, for a body of one record for red that sets either
\* delayPercent or return500, to null, to nothing or to any of 0..100.

Percents == {JNull, JAbsent} \cup {JInt(n) : n \in 0..RandN}

PercentBodies ==
    {ArrayBody(<<JObject(JStr("red"), q, JInt(2), JAbsent)>>) : q \in Percents}
    \cup {ArrayBody(<<JObject(JStr("red"), JAbsent, JAbsent, q)>>) : q \in Percents}

InitPercent ==
    /\ color = ""
    /\ envErrorRate = <<>>
    /\ envLatency = <<>>
    /\ terminationDelay = defaultTerminationDelay
    /\ numCPUBurn = <<>>
    /\ LifeState("serving", TRUE)

GetColorPercent == GetColorFrom(PercentBodies)

NextPercent == GetColorPercent \/ GetColorReturn

PercentSpec == InitPercent /\ [][NextPercent]_vars

----------------------------------------------------------------------------
\* Properties.

\* C1: done is closed only after server.Shutdown has been called and has
\* returned nil: in no reachable state is done closed while Shutdown has not
\* been issued, is in progress, or has returned an error.
C1_DoneOnlyAfterShutdown ==
    done = "closed" =>
        /\ shutdownCalls > 0
        /\ inShutdown
        /\ shutdownErr = "nil"
        /\ coord \notin {"recv", "keepalive", "ticker", "select", "shutdown",
                          "shutdownWait"}

C1_Witness == done = "closed" /\ shutdownErr = "nil" /\ mainpc = "wait"

\* C2: keep-alives are disabled before the grace ticker is started, and
\* server.Shutdown is issued only after the ticker has ticked or a second
\* signal has been received.
C2_CoordinatorOrder ==
    /\ ticker # "none" => ~keepAlives
    /\ coord \in {"select", "shutdown", "shutdownWait", "returned", "finished",
                   "fatal"} => ticker # "none"
    /\ (coord = "shutdown" \/ shutdownCalls > 0 \/ inShutdown) =>
            /\ ticker # "none"
            /\ fired \/ escalated

C2_Witness == shutdownCalls > 0 /\ fired /\ ~escalated /\ ~keepAlives

\* C3: in the grace period, with a second signal pending on quit, the
\* coordinator can take the signal and go on to call server.Shutdown without
\* a tick of the grace ticker.
C3_SecondSignalEscalates ==
    /\ (Running /\ coord = "select" /\ quit # <<>>) => ENABLED CoordSelectQuit
    /\ (Running /\ coord = "shutdown") => ENABLED CoordShutdown

C3_Witness == inShutdown /\ escalated /\ ~fired

\* C4: done is write-once: close(done) runs at most once whatever signals
\* arrive, exactly once on a run that exits cleanly, and done, once closed,
\* stays closed.
C4_DoneWriteOnce ==
    /\ [](/\ closes <= 1
          /\ done = "closed" <=> closes = 1
          /\ exit = "clean" => closes = 1
          /\ exit = "panic" => (coord = "panicked" /\ ticker = "none"))
    /\ [][done = "closed" => done' = "closed"]_vars

\* A third signal is buffered on quit after the run closed done and exited.
C4_Witness == exit = "clean" /\ closes = 1 /\ escalated /\ quit # <<>>

\* C5 as claimed: once done is closed, every running worker reaches its
\* "Stopped CPU burn" return.
C5_Original ==
    \A i \in WorkerIds :
        (done = "closed" /\ workers[i] = "running") ~> (workers[i] = "stopped")

\* A poll of worker i never blocks: it takes the done branch if done is
\* closed and the default branch otherwise.
PollNeverBlocks(i) ==
    (Running /\ workers[i] = "running") =>
        IF done = "closed"
        THEN /\ ENABLED (WorkerStep(i) /\ workers'[i] = "stopped")
             /\ ~ENABLED (WorkerStep(i) /\ workers'[i] = "running")
        ELSE /\ ENABLED (WorkerStep(i) /\ workers'[i] = "running")
             /\ ~ENABLED (WorkerStep(i) /\ workers'[i] = "stopped")

\* C5, amended: once done is closed, every running worker ends, by taking
\* the done branch of its poll or with the process, which main ends as soon
\* as it sees done closed without waiting for the workers; and no poll blocks.
C5_WorkersEnd ==
    /\ \A i \in WorkerIds :
          (done = "closed" /\ workers[i] = "running")
              ~> (workers[i] = "stopped" \/ exit # "running")
    /\ [](\A i \in WorkerIds : PollNeverBlocks(i))

\* The process has exited cleanly: one worker took the done branch, another
\* was still in its loop.
C5_Witness ==
    /\ exit = "clean"
    /\ \E i \in WorkerIds : workers[i] = "stopped"
    /\ \E i \in WorkerIds : workers[i] = "running"

NoAdmission ==
    \A i \in ConnSlots :
        conns[i].pc \in {"closed", "idle"} => conns'[i].pc \in {"closed", "idle"}

\* C6 as claimed: once keep-alives are disabled, no new request is admitted.
C6_Original == [][~keepAlives => NoAdmission]_vars

\* C6, amended: no new connection is accepted once server.Shutdown has been
\* called, which closes the listener. In the grace period before it the
\* listener stays open and a new connection is admitted; with keep-alives
\* disabled no connection is kept idle for a further request.
C6_NoAdmissionAfterShutdown ==
    /\ [](inShutdown => ~listening)
    /\ [](~keepAlives => \A i \in ConnSlots : conns[i].pc # "idle")
    /\ [][inShutdown => NoAdmission]_vars
    /\ [](\A i \in ConnSlots :
            (Running /\ listening /\ conns[i].pc = "closed")
                => ENABLED ConnAccept(i))

C6_Witness == inShutdown /\ ~keepAlives /\ refused = "stopping"

\* C7 as claimed: after a terminating signal the serving process never ends
\* in the fatal exit, whatever the delay of the requests in flight.
C7_Original ==
    (coord # "recv" /\ mainpc \in {"serving", "wait"}) => exit # "fatal"

\* C7, amended: on a serving process, if server.Shutdown returns nil then
\* every admitted request has been answered and the process goes on to exit
\* with status 0, never fatally. (A request still in flight when the 30 s
\* timeout of Shutdown passes makes Shutdown fail and the process exit
\* fatally.)
C7_CleanExitAfterShutdown ==
    /\ [](shutdownErr = "nil" => \A i \in ConnSlots : ~Active(conns[i]))
    /\ [](exit = "clean" =>
            /\ shutdownErr = "nil"
            /\ \A i \in ConnSlots : ~InFlight(conns[i]))
    /\ []((shutdownErr = "nil" /\ mainpc \in {"serving", "wait", "exited"})
            => exit \in {"running", "clean"})
    /\ (shutdownErr = "nil" /\ mainpc \in {"serving", "wait"}) ~> (exit = "clean")

\* server.Shutdown is waiting while a delayed request, past its sleep, has
\* just been answered.
C7_Witness ==
    /\ coord = "shutdownWait"
    /\ \E i \in ConnSlots :
          /\ conns[i].pc = "responded"
          /\ conns[i].slept > 0
          /\ conns[i].reply.status \in {200, 500}

\* C8: if server.Shutdown returns an error, the process ends fatally; Shutdown
\* is not called again, done is never closed and main never reaches its
\* normal exit.
C8_ShutdownFailureIsFatal ==
    /\ [](shutdownErr = "deadline" =>
            /\ done = "open"
            /\ closes = 0
            /\ shutdownCalls = 1
            /\ coord \in {"returned", "fatal"}
            /\ mainpc # "exited"
            /\ exit \in {"running", "fatal"})
    /\ (shutdownErr = "deadline") ~> (exit = "fatal")

C8_Witness ==
    /\ shutdownErr = "deadline"
    /\ coord = "fatal"
    /\ exit = "fatal"
    /\ mainpc = "wait"

\* A body that is read and decoded without error: no bytes, the sentinel,
\* null, or an array of well-typed records.
WellFormed(body) ==
    \/ body.kind \in {"empty", "null"}
    \/ body.kind = "string" /\ body.s = "[]"
    \/ /\ body.kind = "array"
       /\ \A k \in 1..Len(body.elems) : ElemOk(body.elems[k])

IntegerOrUnset(s) == s = <<>> \/ Atoi(s).ok

\* What getColor writes for the errors a request with this body can meet.
ErrorBodies(body) ==
    {Fprintf(e) : e \in {ReadErr, SyntaxErr(body.s), TypeErr,
                         AtoiErr(envLatency), AtoiErr(envErrorRate)}}

\* C9 as claimed: with COLOR set, every response carries that color as its
\* body, whatever the request body and the settings of ERROR_RATE and LATENCY.
C9_Original ==
    (color # "" /\ call.pc = "returned") => call.reply.body = Quote(color)

\* C9, amended: with COLOR set, every response to a request whose body is
\* read and decoded without error, with ERROR_RATE and LATENCY unset or
\* integers, carries that color in quotes as its body, with status 200 or
\* 500; a malformed body, or an ERROR_RATE or LATENCY that is not an integer,
\* is answered 500 with an error message as body (the error text, used as
\* the format of fmt.Fprintf).
C9_OverrideColor ==
    /\ (color # "" /\ call.pc = "sleeping") => call.colorToReturn = color
    /\ (color # "" /\ call.pc = "returned") =>
          IF /\ WellFormed(call.body)
             /\ IntegerOrUnset(envLatency)
             /\ IntegerOrUnset(envErrorRate)
          THEN /\ call.reply.body = Quote(color)
               /\ call.reply.status \in {200, 500}
          ELSE /\ call.reply.body \in ErrorBodies(call.body)
               /\ call.reply.status = 500

\* The override color is returned with a 500 decided by the record for it.
C9_Witness ==
    /\ color = "blue"
    /\ call.pc = "returned"
    /\ call.body = ArrayBody(<<RedFull, BlueHalf>>)
    /\ call.reply = [status |-> 500, body |-> Quote("blue")]

\* C10 as claimed: ERROR_RATE=100 answers every request 500 and ERROR_RATE=0
\* answers every request 200, for every body.
C10_Original ==
    call.pc = "returned" =>
        /\ envErrorRate = <<"1", "0", "0">> => call.reply.status = 500
        /\ envErrorRate = <<"0">> => call.reply.status = 200

\* C10, amended: ERROR_RATE=100 answers every request 500. ERROR_RATE=0
\* answers 200, for every draw and every per-request return500, every request
\* whose body is read and decoded without error while LATENCY is unset or an
\* integer; a malformed body or a LATENCY that is not an integer is answered
\* 500 even then.
C10_GlobalErrorRate ==
    call.pc = "returned" =>
        /\ envErrorRate = <<"1", "0", "0">> => call.reply.status = 500
        /\ envErrorRate = <<"0">> =>
              IF WellFormed(call.body) /\ IntegerOrUnset(envLatency)
              THEN call.reply.status = 200
              ELSE /\ call.reply.status = 500
                   /\ call.reply.body \in ErrorBodies(call.body)

\* ERROR_RATE=0, the record of the resolved color has return500=100, the
\* draw is 0, and the answer is 200.
C10_Witness ==
    /\ envErrorRate = <<"0">>
    /\ call.pc = "returned"
    /\ call.colorParams.Return500Probability = Ptr(100)
    /\ call.draw = 0
    /\ call.reply.status = 200

\* C11 as claimed: with LATENCY=N, every request, whatever its body, is
\* blocked for at least N seconds before its response is written.
C11_Original ==
    (call.pc = "returned" /\ envLatency # <<>> /\ Atoi(envLatency).ok)
        => call.slept >= Atoi(envLatency).val

\* C11, amended: with LATENCY=N, every request whose body is read and decoded
\* without error sleeps exactly N seconds (not at all for N = 0) before its
\* response is written, and never the delayLength of its records; a request
\* whose body cannot be read or decoded is answered 500 at once, without any
\* sleep.
C11_GlobalLatency ==
    (call.pc \in {"sleeping", "returned"} /\ envLatency # <<>> /\ Atoi(envLatency).ok)
        => IF WellFormed(call.body)
           THEN call.slept = Slept(Atoi(envLatency).val)
           ELSE /\ call.pc = "returned"
                /\ call.slept = 0
                /\ call.reply.status = 500
                /\ call.reply.body \in ErrorBodies(call.body)

\* LATENCY=0 and the active record asks for a certain delay of 2 seconds: the
\* request is answered without having slept.
C11_Witness ==
    /\ envLatency = <<"0">>
    /\ call.pc = "returned"
    /\ call.colorParams.DelayProbability = Ptr(100)
    /\ call.colorParams.DelayLength = 2
    /\ call.slept = 0
    /\ call.reply.status \in {200, 500}

\* C12: with no environment override and the single record
\* {red, delayPercent 100, delayLength 2, return500 100} as body: if the
\* resolved color is red the request sleeps 2 seconds and is answered 500,
\* whatever the draws; if it is another color no parameter is applied, the
\* request does not sleep and is answered 200 with that color, as with an
\* empty body.
C12_SingleRecord ==
    (/\ color = "" /\ envErrorRate = <<>> /\ envLatency = <<>>
     /\ call.body = ArrayBody(<<RedFull>>)
     /\ call.pc \in {"sleeping", "returned"})
        => /\ IF call.colorToReturn = "red"
              THEN /\ call.colorParams = DecodeElem(RedFull)
                   /\ call.slept >= 2
              ELSE /\ call.colorParams = ZeroParams
                   /\ call.slept = 0
           /\ call.pc = "returned" =>
                /\ call.reply.status = IF call.colorToReturn = "red" THEN 500 ELSE 200
                /\ call.reply.body = Quote(call.colorToReturn)

\* The resolved color is red and the failure draw is the largest one.
C12_Witness ==
    /\ color = "" /\ envErrorRate = <<>> /\ envLatency = <<>>
    /\ call.body = ArrayBody(<<RedFull>>)
    /\ call.pc = "returned"
    /\ call.colorToReturn = "red"
    /\ call.draw = RandN - 1
    /\ call.slept = 2
    /\ call.reply = [status |-> 500, body |-> Quote("red")]

\* A body that is read but cannot be decoded: not empty, not the sentinel,
\* and refused by json.Unmarshal.
Malformed(body) ==
    /\ body.kind # "readerr"
    /\ NeedsUnmarshal(body)
    /\ Unmarshal(body).err # NoErr

\* C13: a malformed body is answered 500 with the text of the parse error as
\* body, without a sleep and without a draw, and the process is left as it
\* was: still running, the coordinator still waiting for a signal, done open.
C13_Original ==
    (call.pc = "returned" /\ Malformed(call.body))
        => /\ call.reply = [status |-> 500,
                            body |-> ErrorText(Unmarshal(call.body).err)]
           /\ call.slept = 0
           /\ call.draw = NoDraw
           /\ exit = "running"
           /\ coord = "recv"
           /\ done = "open"

\* The body is the single byte '%': the reply is a 500 whose body is not the
\* text of the parse error.
C13_Witness ==
    /\ call.pc = "returned"
    /\ call.body = PercentBody
    /\ call.reply.status = 500
    /\ call.reply.body # ErrorText(SyntaxErr("%"))
    /\ call.reply.body = "invalid character '%!'(MISSING) looking for beginning of value"
    /\ call.slept = 0
    /\ exit = "running"

\* C14: an empty body and the sentinel body are both accepted without a
\* parse error and decoded to the same (empty) request, so that for the same
\* resolved color and draws they get the same decision: no active parameter
\* set, no per-request delay and no per-request failure.
C14_EmptyAndSentinel ==
    /\ ParseRequest(EmptyBody) = [err |-> NoErr, request |-> <<>>]
    /\ ParseRequest(SentinelBody) = ParseRequest(EmptyBody)
    /\ (call.body \in {EmptyBody, SentinelBody} /\ call.pc \in {"sleeping", "returned"})
          => /\ call.colorParams = ZeroParams
             /\ call.colorToReturn = ResolveColor(color, 0)
                    \/ (color = "" /\ \E x \in RandInts : call.colorToReturn = randomColor(x))
             /\ envLatency = <<>> => call.slept = 0
             /\ call.reply.body \notin {Fprintf(TypeErr), Fprintf(SyntaxErr("x")),
                                        Fprintf(ReadErr)}
             /\ (call.pc = "returned" /\ envErrorRate = <<>>
                    /\ IntegerOrUnset(envLatency)) =>
                    /\ call.draw = NoDraw
                    /\ call.reply = [status |-> 200, body |-> Quote(call.colorToReturn)]

\* The sentinel body has been answered 200 with a random color.
C14_Witness ==
    /\ call.body = SentinelBody
    /\ call.pc = "returned"
    /\ color = "" /\ envErrorRate = <<>> /\ envLatency = <<>>
    /\ call.colorParams = ZeroParams
    /\ call.slept = 0
    /\ call.reply = [status |-> 200, body |-> Quote("orange")]

\* C15: no worker stops before done is closed: a stopped worker implies done
\* closed, and while done is open every worker that has been spawned is
\* running, through serving, the grace period and the Shutdown call.
C15_WorkersRunUntilDone ==
    /\ \A i \in WorkerIds : workers[i] = "stopped" => done = "closed"
    /\ done = "open" =>
          \A i \in WorkerIds : workers[i] = (IF i < Spawned THEN "running" ELSE "none")
    /\ (done = "open" /\ mainpc \in {"listen", "serving", "wait"} /\ numCPU >= 0)
          => Spawned = numCPU

\* A worker has stopped after done was closed, while another was running
\* all through the Shutdown call and still is.
C15_Witness ==
    /\ done = "closed"
    /\ exit = "running"
    /\ numCPU = 2
    /\ workers[0] = "running"
    /\ workers[1] = "stopped"

\* C16: main reaches its normal exit only after it has seen done closed: a
\* clean exit comes after server.Shutdown returned nil and done was closed;
\* after ListenAndServe has returned ErrServerClosed main stays blocked on
\* <-done for as long as done is open; and any other ListenAndServe error
\* ends the process fatally.
C16_CleanExitAfterDone ==
    /\ [](exit = "clean" <=> mainpc = "exited")
    /\ [](exit = "clean" =>
            /\ done = "closed"
            /\ closes = 1
            /\ shutdownErr = "nil"
            /\ shutdownCalls = 1
            /\ coord = "finished")
    /\ []((Running /\ mainpc = "wait") => (ENABLED MainDone <=> done = "closed"))
    /\ [](mainpc = "wait" => inShutdown)
    /\ [][mainpc' = "exited" => (mainpc \in {"wait", "exited"} /\ done = "closed")]_vars
    /\ [][(mainpc \in {"listen", "serving"} /\ mainpc' \notin {"listen", "serving", "wait"})
            => (mainpc' = "fatal" /\ exit' = "fatal")]_vars

\* The grace period ended by its timer, server.Shutdown returned nil, done
\* was closed, and main has exited cleanly.
C16_Witness ==
    /\ exit = "clean"
    /\ mainpc = "exited"
    /\ done = "closed"
    /\ fired /\ ~escalated
    /\ shutdownErr = "nil"

\* C17: with no global failure rate, a request whose active record has
\* return500 = p in 1..100 fails if and only if its draw r in 0..99 is at most
\* p, and with p null, absent or 0 it never fails, for no draw at all; the
\* delay decision is the same test on delayPercent, with no global latency.
C17_PerRequestDecisions ==
    /\ \A q \in {NilPtr, Ptr(0)}, r \in Draws :
          /\ FailureDecision(<<>>, [ZeroParams EXCEPT !.Return500Probability = q], r).success
          /\ ~DelayDecision(<<>>, [ZeroParams EXCEPT !.DelayProbability = q], r).called
    /\ (call.pc = "returned" /\ call.colorToReturn = "red") =>
          LET p == call.colorParams.Return500Probability
          IN  IF ~p.nil /\ p.v \in 1..RandN
              THEN /\ call.draw \in Draws
                   /\ call.reply.status = 500 <=> call.draw <= p.v
                   /\ call.reply.status = 200 <=> call.draw > p.v
              ELSE /\ call.draw = NoDraw
                   /\ call.reply.status = 200
    /\ (call.pc = "sleeping" /\ call.colorToReturn = "red") =>
          LET p == call.colorParams.DelayProbability
          IN  IF ~p.nil /\ p.v \in 1..RandN
              THEN /\ call.draw \in Draws
                   /\ call.slept = call.colorParams.DelayLength <=> call.draw <= p.v
                   /\ call.slept = 0 <=> call.draw > p.v
              ELSE /\ call.draw = NoDraw
                   /\ call.slept = 0

\* The draw equals the failure probability and the request fails.
C17_Witness ==
    /\ call.pc = "returned"
    /\ call.colorParams.Return500Probability = Ptr(50)
    /\ call.draw = 50
    /\ call.reply = [status |-> 500, body |-> Quote("red")]

\* The record of the highest index whose label is c, the zero record if none.
LastMatch(request, c) ==
    LET matching == {k \in 1..Len(request) : request[k].Color = c}
    IN  IF matching = {} THEN ZeroParams
        ELSE request[CHOOSE k \in matching : \A j \in matching : j <= k]

\* C18: the active parameter set is the last record, in body order, whose
\* color label is the resolved color, also with a label that occurs twice;
\* an earlier record for the same color has no effect, and with no matching
\* record no per-request parameter is applied.
C18_LastMatchingRecord ==
    (WellFormed(call.body) /\ call.pc \in {"sleeping", "returned"}) =>
        LET request == ParseRequest(call.body).request
            active == LastMatch(request, call.colorToReturn)
        IN  /\ call.colorParams = active
            /\ (\A k \in 1..Len(request) : request[k].Color # call.colorToReturn)
                  => /\ call.colorParams = ZeroParams
                     /\ envLatency = <<>> => call.slept = 0
                     /\ (call.pc = "returned" /\ envErrorRate = <<>>
                            /\ IntegerOrUnset(envLatency))
                           => call.reply.status = 200
            /\ (envLatency = <<>> /\ call.slept > 0) => call.slept = active.DelayLength
            /\ (envLatency = <<>> /\ active.DelayProbability \in {NilPtr, Ptr(0)})
                  => call.slept = 0
            /\ (envErrorRate = <<>> /\ call.pc = "returned"
                   /\ IntegerOrUnset(envLatency)
                   /\ active.Return500Probability \in {NilPtr, Ptr(0)})
                  => call.reply.status = 200
            /\ (envErrorRate = <<>> /\ call.pc = "returned"
                   /\ active.Return500Probability = Ptr(RandN))
                  => call.reply.status = 500

\* Two records for red: the second, which asks for no delay and no failure,
\* is the one applied.
C18_Witness ==
    /\ envErrorRate = <<>> /\ envLatency = <<>>
    /\ call.pc = "returned"
    /\ call.body = ArrayBody(<<RedFull, RedZero>>)
    /\ call.colorToReturn = "red"
    /\ call.colorParams = DecodeElem(RedZero)
    /\ call.slept = 0
    /\ call.reply = [status |-> 200, body |-> Quote("red")]

\* C19: when done is closed no request is in flight: a request leaves the
\* handler only with its response written, server.Shutdown returns nil only
\* with no connection active, done is closed only then, and from the
\* Shutdown call on no request is admitted.
C19_NoRequestInFlightAtClose ==
    /\ [](done = "closed" => \A i \in ConnSlots : conns[i].pc = "closed")
    /\ [](coord \in {"returned", "finished"} /\ shutdownErr = "nil"
            => \A i \in ConnSlots : ~Active(conns[i]))
    /\ [][\A i \in ConnSlots :
            (InFlight(conns[i]) /\ conns'[i].pc # conns[i].pc)
                => \/ conns'[i].pc = "sleeping"
                   \/ /\ conns'[i].pc = "responded"
                      /\ conns'[i].reply.status \in {200, 500}]_vars
    /\ [][done' # done => (done' = "closed" /\ \A i \in ConnSlots : ~Active(conns[i]))]_vars
    /\ [][(inShutdown \/ done = "closed") => NoAdmission]_vars

\* done has been closed on a process whose every request slept the global
\* latency, and a client that came after the Shutdown call was turned away.
C19_Witness ==
    /\ done = "closed"
    /\ exit = "running"
    /\ envLatency = <<"3">>
    /\ refused = "stopping"
    /\ \A i \in ConnSlots : conns[i].pc = "closed"

\* C20: for every termination delay d >= 0, d = 0 included, the coordinator,
\* once it has disabled keep-alives, starts its grace ticker and goes on to
\* call server.Shutdown (unless the process is ended from elsewhere by a
\* fatal error first), and never stops or crashes in between.
C20_Original ==
    /\ []((terminationDelay >= 0 /\ ~keepAlives /\ shutdownCalls = 0)
            => /\ coord \in {"ticker", "select", "shutdown"}
               /\ exit # "panic"
               /\ coord # "ticker" => ticker = "running")
    /\ (terminationDelay >= 0 /\ ~keepAlives)
            ~> (shutdownCalls > 0 \/ exit = "fatal")

\* The termination delay is 0: time.NewTicker has panicked after keep-alives
\* were disabled, and server.Shutdown was never called.
C20_Witness ==
    /\ terminationDelay = 0
    /\ ~keepAlives
    /\ coord = "panicked"
    /\ exit = "panic"
    /\ ticker = "none"
    /\ shutdownCalls = 0
    /\ done = "open"

====
